---- MODULE Spec2Model ----
(***************************************************************************)
(* monrun: the stage execution engine of src/src/helpers.rs.               *)
(*                                                                         *)
(* run_stages lists the builds and the deployments of the remote service,  *)
(* folds each listing into a name -> id map, and then runs the stages of   *)
(* the run-book in order: the targets of a stage are resolved to ids       *)
(* (names_to_ids) and one remote call per id is issued by the dispatcher   *)
(* of the stage's action; the dispatcher awaits all of them (join_all) and *)
(* collects their results into one Result.  Every `?` of run_stages ends   *)
(* the run with the error it meets.                                        *)
(*                                                                         *)
(* A step of the model is what the engine does between two suspensions     *)
(* (the `.await`s of run_stages and of the dispatchers), or one event of   *)
(* the remote service (a call is issued to it, a call returns).            *)
(***************************************************************************)
EXTENDS Integers, Sequences, FiniteSets, TLC

\* ------------------------------------------------------------------ bounds

\* most stages of a run-book
MaxStages == 2
\* most targets of the stage of a one-stage run-book
MaxTargets == 2
\* most targets, over all its stages, of a run-book of several stages
MaxCalls == 3

\* ------------------------------------------------------------------ inputs

\* enum Action, by its serde / strum snake_case tokens
Actions == {"build", "deploy", "start_container", "stop_container", "destroy_container"}

\* resource names a run-book or a listing may use
Names == {"a", "b"}

\* the names the run-books of several stages draw their targets from
RunNames == {"a"}

\* the actions the run-books of several stages draw their actions from: Build, and two
\* of the actions that are resolved among the deployments
RunActions == {"build", "deploy", "stop_container"}

\* the id the remote service assigned to the build of each name
BuildIdOf == [n \in Names |-> IF n = "a" THEN "1" ELSE "2"]

\* the id the remote service assigned to the deployment of each name
DeploymentIdOf == [n \in Names |-> IF n = "a" THEN "3" ELSE "4"]

\* the label of the stage at position i (Stage.name, used for logging only)
StageLabel(i) == IF i = 1 THEN "s1" ELSE IF i = 2 THEN "s2" ELSE IF i = 3 THEN "s3" ELSE "s4"

\* all sequences of pairwise different elements of S
DistinctSeqs(S) ==
  { q \in UNION { [1..n -> S] : n \in 0..Cardinality(S) } :
      \A i, j \in DOMAIN q : i # j => q[i] # q[j] }

\* what list_builds may return for the builds named in S: items with .name and .id
BuildListings(S) ==
  { [i \in DOMAIN q |-> [name |-> q[i], id |-> BuildIdOf[q[i]]]] : q \in DistinctSeqs(S) }

\* what list_deployments may return: items with .deployment.name and .deployment.id
DeploymentListings(S) ==
  { [i \in DOMAIN q |-> [deployment |-> [name |-> q[i], id |-> DeploymentIdOf[q[i]]]]] :
      q \in DistinctSeqs(S) }

\* the target lists of at most n names of S
TargetLists(S, n) == UNION { [1..m -> S] : m \in 0..n }

RECURSIVE TotalTargets(_)
TotalTargets(shape) ==
  IF shape = << >> THEN 0 ELSE Len(Head(shape).targets) + TotalTargets(Tail(shape))

\* struct Stage { name, action, targets }, for each stage of a shape
MakeStages(shape) ==
  [i \in DOMAIN shape |->
     [name |-> StageLabel(i), action |-> shape[i].action, targets |-> shape[i].targets]]

\* the run-books of exactly one stage: every action, up to MaxTargets targets among Names
OneStageBooks ==
  { MakeStages(<<[action |-> a, targets |-> t]>>) :
      a \in Actions, t \in TargetLists(Names, MaxTargets) }

\* the run-books of up to MaxStages stages with up to MaxCalls targets in all, over
\* RunNames and RunActions
ManyStageBooks ==
  { MakeStages(shape) :
      shape \in { sh \in UNION { [1..n -> [action : RunActions,
                                           targets : TargetLists(RunNames, MaxCalls)]] :
                                 n \in 0..MaxStages } :
                  TotalTargets(sh) <= MaxCalls } }

\* the end-to-end run-book: a build stage and a deploy stage, each with both names
ScenarioBooks ==
  { MakeStages(<<[action |-> "build", targets |-> <<"a", "b">>],
                 [action |-> "deploy", targets |-> <<"a", "b">>]>>) }

\* ------------------------------------------------------------------ values

\* anyhow::Result: Ok(v) and Err(e)
Ok(v) == [tag |-> "ok", val |-> v]
Err(e) == [tag |-> "err", err |-> e]
\* a Result that is not there yet (the call has not returned)
Pending == [tag |-> "pending"]
\* the unit value ()
Unit == << >>

IsOk(r) == r.tag = "ok"
IsErr(r) == r.tag = "err"

\* the errors of the engine
\* names_to_ids: "no id found for name {name}"
NoIdFound(name) == [kind |-> "no_id_found", subject |-> name, context |-> "resolve"]
\* an error of the client, wrapped in the dispatcher's context "failed to <verb> {id}"
TransportError(verb, id) == [kind |-> "transport", subject |-> id, context |-> verb]
\* anyhow!("failed to <verb> {id}. operation unsuccessful, see monitor update")
Unsuccessful(verb, id) == [kind |-> "unsuccessful", subject |-> id, context |-> verb]
\* the error of a listing call, passed on by `?` as it came
ListingError(what) == [kind |-> "listing", subject |-> what, context |-> "list"]

\* ------------------------------------------------------------------ state

VARIABLES
  stages,               \* the run-book: Vec<Stage>
  remote_builds,        \* what the service answers to list_builds
  remote_deployments,   \* what the service answers to list_deployments
  pc,                   \* where run_stages is
  k,                    \* the stage the loop of run_stages is at (0: before the loop)
  build_map,            \* run_stages' build_map
  deployment_map,       \* run_stages' deployment_map
  inv,                  \* per stage, the invocations of its dispatch, in input order
  first_failed,         \* the position of the current stage whose call failed first in
                        \* time (0: none has failed)
  ret,                  \* per stage, what its dispatcher returned
  list_calls,           \* how many listing calls were issued, per kind
  list_outcome,         \* how each listing call came back: "none", "ok" or "err"
  result                \* what run_stages returned

vars == <<stages, remote_builds, remote_deployments, pc, k, build_map, deployment_map,
          inv, first_failed, ret, list_calls, list_outcome, result>>

\* ------------------------------------------------------------------ name resolver

\* an empty HashMap<String, String>
EmptyMap == [n \in {} |-> ""]

\* HashMap::insert: a later entry of the same name replaces the earlier one
MapInsert(m, name, id) == [n \in DOMAIN m \cup {name} |-> IF n = name THEN id ELSE m[n]]

\* .map(|x| (name, id)).collect::<HashMap<_, _>>(): the pairs inserted in listing order
RECURSIVE CollectMap(_, _)
CollectMap(pairs, m) ==
  IF pairs = << >> THEN m
  ELSE CollectMap(Tail(pairs), MapInsert(m, Head(pairs)[1], Head(pairs)[2]))

\* build_name_to_id_map, given the Result of client.list_builds
build_name_to_id_map(listed) ==
  IF IsErr(listed) THEN listed
  ELSE Ok(CollectMap([i \in DOMAIN listed.val |-> <<listed.val[i].name, listed.val[i].id>>],
                     EmptyMap))

\* mutant of deployment_name_to_id_map: a failed listing gives an empty map
deployment_name_to_id_map_Lenient(listed) ==
  IF IsErr(listed) THEN Ok(EmptyMap)
  ELSE Ok(CollectMap([i \in DOMAIN listed.val |->
                        <<listed.val[i].deployment.name, listed.val[i].deployment.id>>],
                     EmptyMap))

\* deployment_name_to_id_map, given the Result of client.list_deployments
deployment_name_to_id_map(listed) ==
  IF IsErr(listed) THEN listed
  ELSE Ok(CollectMap([i \in DOMAIN listed.val |->
                        <<listed.val[i].deployment.name, listed.val[i].deployment.id>>],
                     EmptyMap))

\* the position of the first Err of rs at or after position i, 0 when there is none:
\* collect::<Result<_, _>>() takes the items in order and stops at the first Err
RECURSIVE FirstErr(_, _)
FirstErr(rs, i) ==
  IF i > Len(rs) THEN 0 ELSE IF rs[i].tag = "err" THEN i ELSE FirstErr(rs, i + 1)

\* mutant of CollectVec: at the first Err the items collected so far are returned
CollectVec_Partial(rs) ==
  LET p == FirstErr(rs, 1)
  IN IF p # 0 THEN Ok([i \in 1..(p - 1) |-> rs[i].val])
     ELSE Ok([i \in DOMAIN rs |-> rs[i].val])

\* Iterator<Item = Result<String>>::collect::<Result<Vec<String>>>()
CollectVec(rs) ==
  LET p == FirstErr(rs, 1)
  IN IF p # 0 THEN rs[p] ELSE Ok([i \in DOMAIN rs |-> rs[i].val])

\* mutant of CollectUnit: the error of the call that failed first in time
CollectUnit_FirstInTime(rs) ==
  IF first_failed \in DOMAIN rs THEN rs[first_failed] ELSE Ok(Unit)

\* mutant of CollectUnit: nothing to collect is an error
CollectUnit_EmptyRefused(rs) ==
  LET p == FirstErr(rs, 1)
  IN IF rs = << >> THEN Err(NoIdFound("")) ELSE IF p # 0 THEN rs[p] ELSE Ok(Unit)

\* Iterator<Item = Result<()>>::collect::<Result<()>>()
CollectUnit(rs) ==
  LET p == FirstErr(rs, 1)
  IN IF p # 0 THEN rs[p] ELSE Ok(Unit)

\* mutant of names_to_ids: filter_map, a name without an id is left out
names_to_ids_SkipMissing(names, name_to_id_map) ==
  Ok(SelectSeq([i \in DOMAIN names |->
                  IF names[i] \in DOMAIN name_to_id_map
                    THEN name_to_id_map[names[i]] ELSE "none"],
               LAMBDA id : id # "none"))

\* mutant of names_to_ids: the ids newest first (each pushed to the front)
names_to_ids_Reversed(names, name_to_id_map) ==
  CollectVec([i \in DOMAIN names |->
                IF names[Len(names) + 1 - i] \in DOMAIN name_to_id_map
                  THEN Ok(name_to_id_map[names[Len(names) + 1 - i]])
                  ELSE Err(NoIdFound(names[Len(names) + 1 - i]))])

\* a sequence without the later occurrences of its elements
RECURSIVE WithoutRepeats(_)
WithoutRepeats(q) ==
  IF q = << >> THEN << >>
  ELSE LET front == SubSeq(q, 1, Len(q) - 1)
       IN IF \E j \in DOMAIN front : front[j] = q[Len(q)]
            THEN WithoutRepeats(front)
            ELSE Append(WithoutRepeats(front), q[Len(q)])

\* mutant of names_to_ids: a name that occurs again is resolved once
names_to_ids_Dedup(names, name_to_id_map) ==
  CollectVec([i \in DOMAIN WithoutRepeats(names) |->
                IF WithoutRepeats(names)[i] \in DOMAIN name_to_id_map
                  THEN Ok(name_to_id_map[WithoutRepeats(names)[i]])
                  ELSE Err(NoIdFound(WithoutRepeats(names)[i]))])

\* names_to_ids: each name looked up in the map, in input order, collected into a Result
names_to_ids(names, name_to_id_map) ==
  CollectVec([i \in DOMAIN names |->
                IF names[i] \in DOMAIN name_to_id_map
                  THEN Ok(name_to_id_map[names[i]])
                  ELSE Err(NoIdFound(names[i]))])

\* ------------------------------------------------------------------ action dispatcher

\* what a remote action call may come back with: an Update with success = true, an
\* Update with success = false, or an error of the client
Responses == {"success", "unsuccessful", "transport_error"}

\* mutant of Future: update.success is not looked at
Future_SuccessIgnored(verb, id, resp) ==
  IF resp = "transport_error" THEN Err(TransportError(verb, id))
  ELSE IF resp \in {"success", "unsuccessful"} THEN Ok(Unit)
  ELSE Pending

\* mutant of Future: the test of update.success is inverted
Future_SuccessInverted(verb, id, resp) ==
  IF resp = "transport_error" THEN Err(TransportError(verb, id))
  ELSE IF resp = "unsuccessful" THEN Ok(Unit)
  ELSE IF resp = "success" THEN Err(Unsuccessful(verb, id))
  ELSE Pending

\* the async block of a dispatcher for one id: the client's Result is given the context
\* "failed to <verb> {id}", and an Update that is not a success becomes an error
Future(verb, id, resp) ==
  IF resp = "transport_error" THEN Err(TransportError(verb, id))
  ELSE IF resp = "success" THEN Ok(Unit)
  ELSE IF resp = "unsuccessful" THEN Err(Unsuccessful(verb, id))
  ELSE Pending

\* join_all(futes).await.into_iter().collect(): the outputs in input order, collected
redeploy_deployments_in_parallel(ids, resps) ==
  CollectUnit([i \in DOMAIN ids |-> Future("deploy", ids[i], resps[i])])

start_containers_in_parallel(ids, resps) ==
  CollectUnit([i \in DOMAIN ids |-> Future("start container", ids[i], resps[i])])

stop_containers_in_parallel(ids, resps) ==
  CollectUnit([i \in DOMAIN ids |-> Future("stop container", ids[i], resps[i])])

destroy_containers_in_parallel(ids, resps) ==
  CollectUnit([i \in DOMAIN ids |-> Future("destroy container", ids[i], resps[i])])

trigger_builds_in_parallel(ids, resps) ==
  CollectUnit([i \in DOMAIN ids |-> Future("build", ids[i], resps[i])])

\* the method of the client each dispatcher calls
Method(action) ==
  CASE action = "build" -> "build"
    [] action = "deploy" -> "deploy_container"
    [] action = "start_container" -> "start_container"
    [] action = "stop_container" -> "stop_container"
    [] action = "destroy_container" -> "remove_container"

\* the second match of run_stages: the dispatcher of the stage's action
Dispatch(action, ids, resps) ==
  CASE action = "build" -> trigger_builds_in_parallel(ids, resps)
    [] action = "deploy" -> redeploy_deployments_in_parallel(ids, resps)
    [] action = "start_container" -> start_containers_in_parallel(ids, resps)
    [] action = "stop_container" -> stop_containers_in_parallel(ids, resps)
    [] action = "destroy_container" -> destroy_containers_in_parallel(ids, resps)

\* mutant of ResolveTargets: every action resolved in the deployment map
ResolveTargets_DeploymentsOnly(action, targets, bmap, dmap) == names_to_ids(targets, dmap)

\* mutant of ResolveTargets: the names are looked up in what the remote service holds now
ResolveTargets_Fresh(action, targets, bmap, dmap) ==
  IF action = "build"
    THEN names_to_ids(targets, build_name_to_id_map(Ok(remote_builds)).val)
    ELSE names_to_ids(targets, deployment_name_to_id_map(Ok(remote_deployments)).val)

\* the first match of run_stages: the map the targets of a stage are resolved in
ResolveTargets(action, targets, bmap, dmap) ==
  IF action = "build" THEN names_to_ids(targets, bmap) ELSE names_to_ids(targets, dmap)

\* the ids and the responses of the invocations of a stage, in input order
IdsOf(calls) == [i \in DOMAIN calls |-> calls[i].id]
RespsOf(calls) == [i \in DOMAIN calls |-> calls[i].st]

\* mutant of JoinReady: try_join_all, which is ready at the first error
JoinReady_FailFast(calls) ==
  \/ \A i \in DOMAIN calls : calls[i].st \in Responses
  \/ \E i \in DOMAIN calls : calls[i].st \in Responses \ {"success"}

\* mutant of JoinReady: the calls are issued and not awaited
JoinReady_NotAwaited(calls) == \A i \in DOMAIN calls : calls[i].st # "created"

\* join_all is ready when every future has produced its output
JoinReady(calls) == \A i \in DOMAIN calls : calls[i].st \in Responses

\* ------------------------------------------------------------------ stage runner

Init ==
  /\ \/ /\ stages \in OneStageBooks
        /\ remote_builds \in BuildListings(Names)
        /\ remote_deployments \in DeploymentListings(Names)
     \/ /\ stages \in ManyStageBooks
        /\ remote_builds \in BuildListings(RunNames)
        /\ remote_deployments \in DeploymentListings(RunNames)
     \/ /\ stages \in ScenarioBooks
        /\ remote_builds \in BuildListings(Names)
        /\ remote_deployments \in DeploymentListings(Names)
  /\ pc = "start"
  /\ k = 0
  /\ build_map = EmptyMap
  /\ deployment_map = EmptyMap
  /\ inv = [s \in DOMAIN stages |-> << >>]
  /\ first_failed = 0
  /\ ret = [s \in DOMAIN stages |-> Pending]
  /\ list_calls = [builds |-> 0, deployments |-> 0]
  /\ list_outcome = [builds |-> "none", deployments |-> "none"]
  /\ result = Pending

\* run_stages is called: client.list_builds is issued and awaited
Start ==
  /\ pc = "start"
  /\ pc' = "await_builds"
  /\ list_calls' = [list_calls EXCEPT !.builds = @ + 1]
  /\ UNCHANGED <<stages, remote_builds, remote_deployments, k, build_map, deployment_map,
                 inv, first_failed, ret, list_outcome, result>>

\* mutant of EnterStage: a run-book without stages is refused
EnterStage_EmptyRefused(s, dmap) ==
  /\ k' = s
  /\ first_failed' = 0
  /\ UNCHANGED inv
  /\ pc' = "done"
  /\ result' = IF stages = << >> THEN Err(NoIdFound("")) ELSE Ok(Unit)

\* mutant of EnterStage: the targets of stage s and of every stage after it are resolved
\* before the futures of stage s are made
EnterStage_ValidateAll(s, dmap) ==
  /\ k' = s
  /\ first_failed' = 0
  /\ IF s > Len(stages)
       THEN /\ pc' = "done"
            /\ result' = Ok(Unit)
            /\ UNCHANGED inv
       ELSE LET res == [t \in s..Len(stages) |->
                          ResolveTargets(stages[t].action, stages[t].targets, build_map, dmap)]
                bad == { t \in s..Len(stages) : IsErr(res[t]) }
            IN IF bad # {}
                 THEN /\ pc' = "done"
                      /\ result' = res[CHOOSE t \in bad : \A u \in bad : t <= u]
                      /\ UNCHANGED inv
                 ELSE /\ pc' = "join"
                      /\ inv' = [inv EXCEPT ![s] =
                                   [i \in DOMAIN res[s].val |->
                                      [id |-> res[s].val[i], method |-> "none",
                                       st |-> "created"]]]
                      /\ UNCHANGED result

\* the loop of run_stages reaches stage s (or its end) with deployment map dmap: the
\* targets are resolved and, when they all resolve, the futures of the dispatcher are made
EnterStage(s, dmap) ==
  /\ k' = s
  /\ first_failed' = 0
  /\ IF s > Len(stages)
       THEN /\ pc' = "done"
            /\ result' = Ok(Unit)
            /\ UNCHANGED inv
       ELSE LET ids == ResolveTargets(stages[s].action, stages[s].targets, build_map, dmap)
            IN IF IsErr(ids)
                 THEN /\ pc' = "done"
                      /\ result' = ids
                      /\ UNCHANGED inv
                 ELSE /\ pc' = "join"
                      /\ inv' = [inv EXCEPT ![s] =
                                   [i \in DOMAIN ids.val |->
                                      [id |-> ids.val[i], method |-> "none", st |-> "created"]]]
                      /\ UNCHANGED result

\* list_builds returns: on an error run_stages returns it, otherwise the build map is
\* made and client.list_deployments is issued and awaited
BuildsListed ==
  /\ pc = "await_builds"
  /\ \E resp \in {Ok(remote_builds), Err(ListingError("builds"))} :
       LET m == build_name_to_id_map(resp)
       IN /\ list_outcome' = [list_outcome EXCEPT !.builds = resp.tag]
          /\ IF IsErr(m)
               THEN /\ pc' = "done"
                    /\ result' = m
                    /\ UNCHANGED <<build_map, list_calls>>
               ELSE /\ build_map' = m.val
                    /\ pc' = "await_deployments"
                    /\ list_calls' = [list_calls EXCEPT !.deployments = @ + 1]
                    /\ UNCHANGED result
  /\ UNCHANGED <<stages, remote_builds, remote_deployments, k, deployment_map, inv,
                 first_failed, ret>>

\* list_deployments returns: on an error run_stages returns it, otherwise the deployment
\* map is made and the loop over the stages begins
DeploymentsListed ==
  /\ pc = "await_deployments"
  /\ \E resp \in {Ok(remote_deployments), Err(ListingError("deployments"))} :
       LET m == deployment_name_to_id_map(resp)
       IN /\ list_outcome' = [list_outcome EXCEPT !.deployments = resp.tag]
          /\ IF IsErr(m)
               THEN /\ pc' = "done"
                    /\ result' = m
                    /\ UNCHANGED <<deployment_map, k, inv, first_failed>>
               ELSE /\ deployment_map' = m.val
                    /\ EnterStage(1, m.val)
  /\ UNCHANGED <<stages, remote_builds, remote_deployments, build_map, ret, list_calls>>

\* mutant of Issue: a call is issued when the calls before it have come back
Issue_Sequential(i) ==
  /\ pc = "join"
  /\ i \in DOMAIN inv[k]
  /\ inv[k][i].st = "created"
  /\ \A j \in 1..(i - 1) : inv[k][j].st \in Responses
  /\ inv' = [inv EXCEPT ![k][i].st = "in_flight",
                        ![k][i].method = Method(stages[k].action)]
  /\ UNCHANGED <<stages, remote_builds, remote_deployments, pc, k, build_map,
                 deployment_map, first_failed, ret, list_calls, list_outcome, result>>

\* join_all polls its futures in input order; the first poll of the future at position i
\* issues its call to the remote service
Issue(i) ==
  /\ pc = "join"
  /\ i \in DOMAIN inv[k]
  /\ inv[k][i].st = "created"
  /\ \A j \in 1..(i - 1) : inv[k][j].st # "created"
  /\ inv' = [inv EXCEPT ![k][i].st = "in_flight",
                        ![k][i].method = Method(stages[k].action)]
  /\ UNCHANGED <<stages, remote_builds, remote_deployments, pc, k, build_map,
                 deployment_map, first_failed, ret, list_calls, list_outcome, result>>

\* the call at position i of the current stage comes back with resp
Complete(i, resp) ==
  /\ pc = "join"
  /\ i \in DOMAIN inv[k]
  /\ inv[k][i].st = "in_flight"
  /\ inv' = [inv EXCEPT ![k][i].st = resp]
  /\ first_failed' = IF first_failed = 0 /\ resp # "success" THEN i ELSE first_failed
  /\ UNCHANGED <<stages, remote_builds, remote_deployments, pc, k, build_map,
                 deployment_map, ret, list_calls, list_outcome, result>>

\* mutant of Join: the Result of the dispatcher is dropped, not passed on by `?`
Join_ErrorDropped ==
  /\ pc = "join"
  /\ JoinReady(inv[k])
  /\ ret' = [ret EXCEPT ![k] = Dispatch(stages[k].action, IdsOf(inv[k]), RespsOf(inv[k]))]
  /\ EnterStage(k + 1, deployment_map)
  /\ UNCHANGED <<stages, remote_builds, remote_deployments, build_map, deployment_map,
                 list_calls, list_outcome>>

\* mutant of Join: once every call is issued the dispatcher stops waiting for the calls
\* still in flight and returns a timeout error
Join_TimesOut ==
  /\ pc = "join"
  /\ \A i \in DOMAIN inv[k] : inv[k][i].st # "created"
  /\ LET r == IF JoinReady(inv[k])
                THEN Dispatch(stages[k].action, IdsOf(inv[k]), RespsOf(inv[k]))
                ELSE Err(TransportError("timeout", ""))
     IN /\ ret' = [ret EXCEPT ![k] = r]
        /\ IF IsErr(r)
             THEN /\ pc' = "done"
                  /\ result' = r
                  /\ UNCHANGED <<k, inv, first_failed>>
             ELSE EnterStage(k + 1, deployment_map)
  /\ UNCHANGED <<stages, remote_builds, remote_deployments, build_map, deployment_map,
                 list_calls, list_outcome>>

\* mutant of Join: a stage whose dispatcher returned an error is dispatched again
Join_RetryOnError ==
  /\ pc = "join"
  /\ JoinReady(inv[k])
  /\ LET r == Dispatch(stages[k].action, IdsOf(inv[k]), RespsOf(inv[k]))
     IN IF IsErr(r)
          THEN /\ inv' = [inv EXCEPT ![k] =
                            [i \in DOMAIN inv[k] |-> [inv[k][i] EXCEPT !.st = "created"]]]
               /\ first_failed' = 0
               /\ UNCHANGED <<pc, k, ret, result>>
          ELSE /\ ret' = [ret EXCEPT ![k] = r]
               /\ EnterStage(k + 1, deployment_map)
  /\ UNCHANGED <<stages, remote_builds, remote_deployments, build_map, deployment_map,
                 list_calls, list_outcome>>

\* join_all has every output: the dispatcher returns; on an error run_stages returns it,
\* otherwise the loop goes on to the next stage
Join ==
  /\ pc = "join"
  /\ JoinReady(inv[k])
  /\ LET r == Dispatch(stages[k].action, IdsOf(inv[k]), RespsOf(inv[k]))
     IN /\ ret' = [ret EXCEPT ![k] = r]
        /\ IF IsErr(r)
             THEN /\ pc' = "done"
                  /\ result' = r
                  /\ UNCHANGED <<k, inv, first_failed>>
             ELSE EnterStage(k + 1, deployment_map)
  /\ UNCHANGED <<stages, remote_builds, remote_deployments, build_map, deployment_map,
                 list_calls, list_outcome>>

\* what the messages of an error name: the missing name of a resolution error, the verb
\* of the action and the identifier of a dispatch error, nothing for a listing error
\* (the client's error as it came)
ErrorNames(e) ==
  CASE e.kind = "no_id_found" -> {e.subject}
    [] e.kind \in {"transport", "unsuccessful"} -> {e.context, e.subject}
    [] e.kind = "listing" -> {}

\* main: the error of run_stages under the context
\* "failed during a stage. terminating run."; the context is a fixed text, so the report
\* names what the error of run_stages names
main_report(r) ==
  IF IsErr(r)
    THEN [tag |-> "err", context |-> "failed during a stage. terminating run.",
          cause |-> r.err, names |-> ErrorNames(r.err)]
    ELSE r

Next ==
  \/ Start
  \/ BuildsListed
  \/ DeploymentsListed
  \/ \E i \in 1..(MaxTargets + MaxCalls) : Issue(i)
  \/ \E i \in 1..(MaxTargets + MaxCalls), resp \in Responses : Complete(i, resp)
  \/ Join

Spec == Init /\ [][Next]_vars

\* ------------------------------------------------------------------ runs in which every call returns

\* the runtime polls the future of run_stages whenever it can go on (Start, Issue, Join),
\* and every call issued to the remote service returns (BuildsListed, DeploymentsListed,
\* Complete)
Fairness ==
  /\ WF_vars(Start)
  /\ WF_vars(BuildsListed)
  /\ WF_vars(DeploymentsListed)
  /\ \A i \in 1..(MaxTargets + MaxCalls) : WF_vars(Issue(i))
  /\ \A i \in 1..(MaxTargets + MaxCalls) : WF_vars(\E resp \in Responses : Complete(i, resp))
  /\ WF_vars(Join)

LiveSpec == Init /\ [][Next]_vars /\ Fairness

\* ------------------------------------------------------------------ a remote service that changes during the run

\* builds or deployments are created or removed at the remote service while run_stages
\* runs; the client of run_stages sees them only through list_builds and list_deployments
RemoteChange ==
  /\ pc \notin {"start", "done"}
  /\ remote_builds' \in BuildListings(RunNames)
  /\ remote_deployments' \in DeploymentListings(RunNames)
  /\ <<remote_builds', remote_deployments'>> # <<remote_builds, remote_deployments>>
  /\ UNCHANGED <<stages, pc, k, build_map, deployment_map, inv, first_failed, ret,
                 list_calls, list_outcome, result>>

\* the runs of the run-books of several stages
InitDrift ==
  /\ Init
  /\ stages \in ManyStageBooks
  /\ remote_builds \in BuildListings(RunNames)
  /\ remote_deployments \in DeploymentListings(RunNames)

NextDrift ==
  \/ Next
  \/ RemoteChange

SpecDrift == InitDrift /\ [][NextDrift]_vars

\* ------------------------------------------------------------------ properties

\* the positions of the calls of a stage that came back as failures
FailedAt(s) == { i \in DOMAIN inv[s] : inv[s][i].st \in Responses \ {"success"} }

\* the smallest of a non-empty set of positions
Least(S) == CHOOSE i \in S : \A j \in S : i <= j

\* whether the dispatcher of stage s was called and has returned
Returned(s) == ret[s].tag # "pending"

\* whether a call of stage s has been issued to the remote service
SomeIssued(s) == \E i \in DOMAIN inv[s] : inv[s][i].st # "created"

\* the error kind a failed response stands for
KindOf(resp) == IF resp = "unsuccessful" THEN "unsuccessful" ELSE "transport"

\* C1: once every invocation of a stage's dispatch has completed and the dispatch has
\* returned, it returned success iff every invocation succeeded, and otherwise the error
\* of the failed invocation at the smallest input position (its identifier, its kind),
\* whichever invocation failed first in time.
C1_FirstFailureInInputOrder ==
  \A s \in DOMAIN stages :
    (Returned(s) /\ \A i \in DOMAIN inv[s] : inv[s][i].st \in Responses) =>
      /\ IsOk(ret[s]) <=> FailedAt(s) = {}
      /\ FailedAt(s) # {} =>
           LET p == Least(FailedAt(s))
           IN /\ IsErr(ret[s])
              /\ ret[s].err.subject = inv[s][p].id
              /\ ret[s].err.kind = KindOf(inv[s][p].st)

\* C1 witness: two invocations with different identifiers both failed, the second one
\* first in time, and the dispatch returned the error of the first one.
C1_Witness ==
  \E s \in DOMAIN stages :
    /\ s = k
    /\ IsErr(ret[s])
    /\ Len(inv[s]) >= 2
    /\ FailedAt(s) = {1, 2}
    /\ first_failed = 2
    /\ inv[s][1].id # inv[s][2].id
    /\ ret[s].err.subject = inv[s][1].id

\* C2: a dispatch that has returned has issued one invocation per target and none of
\* them is still waiting to be issued or in flight; and run_stages has not returned
\* while any invocation is outstanding.
C2_DispatchAwaitsEveryInvocation ==
  /\ \A s \in DOMAIN stages :
       Returned(s) =>
         /\ Len(inv[s]) = Len(stages[s].targets)
         /\ \A i \in DOMAIN inv[s] : inv[s][i].st \in Responses
  /\ result.tag # "pending" =>
       \A s \in DOMAIN stages : \A i \in DOMAIN inv[s] : inv[s][i].st \in Responses

\* C2 witness: the first invocation failed first in time, its sibling came back after
\* that, and only then did the dispatch return.
C2_Witness ==
  \E s \in DOMAIN stages :
    /\ s = k
    /\ IsErr(ret[s])
    /\ FailedAt(s) = {1, 2}
    /\ first_failed = 1

\* the cause stage s failed with: its resolution error, or the error of its dispatch
FailureOf(s) ==
  LET ids == ResolveTargets(stages[s].action, stages[s].targets, build_map, deployment_map)
  IN IF IsErr(ids) THEN ids ELSE ret[s]

\* whether the run reached stage s and the stage failed, by resolution or by dispatch
StageFailed(s) == k >= s /\ IsErr(FailureOf(s))

\* C3: when a stage has failed, run_stages has returned the failure of that stage and
\* no invocation of any later stage has been created or issued.
C3_FailedStageEndsRun ==
  \A s \in DOMAIN stages :
    StageFailed(s) =>
      /\ pc = "done"
      /\ result = FailureOf(s)
      /\ \A t \in DOMAIN stages : t > s => inv[t] = << >> /\ ret[t] = Pending

\* C3 witness: the dispatch of the first stage failed and the second stage, which has
\* targets, was never run.
C3_Witness ==
  /\ Len(stages) >= 2
  /\ IsErr(ret[1])
  /\ stages[2].targets # << >>
  /\ inv[2] = << >>
  /\ pc = "done"

\* C4: every invocation in flight belongs to the stage the runner is at, and a stage has
\* an invocation issued only when every invocation of every earlier stage has come back
\* a success and its dispatch has returned Ok.
C4_StagesDoNotOverlap ==
  /\ \A s \in DOMAIN stages : \A i \in DOMAIN inv[s] :
       inv[s][i].st = "in_flight" => s = k /\ pc = "join"
  /\ \A s \in DOMAIN stages :
       SomeIssued(s) =>
         \A t \in 1..(s - 1) :
           /\ IsOk(ret[t])
           /\ \A j \in DOMAIN inv[t] : inv[t][j].st = "success"

\* C4 witness: an invocation of the second stage is in flight after the invocations of
\* the first stage have all come back.
C4_Witness ==
  /\ Len(stages) >= 2
  /\ inv[1] # << >>
  /\ \E i \in DOMAIN inv[2] : inv[2][i].st = "in_flight"

\* the map the claims say stage s is resolved in
OwnMap(s) == IF stages[s].action = "build" THEN build_map ELSE deployment_map

\* the positions of the targets of stage s whose names are not in map m
MissingIn(s, m) == { i \in DOMAIN stages[s].targets : stages[s].targets[i] \notin DOMAIN m }

\* C5: when the runner has reached a stage one of whose target names is absent from the
\* applicable index, the run has failed at that stage with the name-not-found error of
\* the first absent name, and no invocation of that stage exists, not even for the
\* targets that do resolve.
C5_MissingNameFailsBeforeDispatch ==
  \A s \in DOMAIN stages :
    (k >= s /\ MissingIn(s, OwnMap(s)) # {}) =>
      /\ k = s
      /\ pc = "done"
      /\ result = Err(NoIdFound(stages[s].targets[Least(MissingIn(s, OwnMap(s)))]))
      /\ result.err.subject \notin DOMAIN OwnMap(s)
      /\ inv[s] = << >>
      /\ ret[s] = Pending

\* C5 witness: the first target of a stage resolves, the second does not, and the run
\* has failed without any invocation.
C5_Witness ==
  /\ k = 1
  /\ Len(stages) = 1
  /\ MissingIn(1, OwnMap(1)) = {2}
  /\ pc = "done"
  /\ IsErr(result)
  /\ inv[1] = << >>

\* the responses of stage s with every success = false replaced by a transport error
AsTransport(s) ==
  [i \in DOMAIN inv[s] |->
     IF inv[s][i].st = "unsuccessful" THEN "transport_error" ELSE inv[s][i].st]

\* C6: a dispatch returns as it would with every success = false response replaced by a
\* transport error of the same invocation (failure for failure, the same identifier and
\* context), except for the kind of the error, which tells the two apart; and a failed
\* dispatch ends the run with that error and without any call of a later stage.
C6_UnsuccessfulFailsLikeTransport ==
  \A s \in DOMAIN stages :
    Returned(s) =>
      LET other == Dispatch(stages[s].action, IdsOf(inv[s]), AsTransport(s))
      IN /\ ret[s].tag = other.tag
         /\ IsErr(ret[s]) =>
              /\ FailedAt(s) # {}
              /\ ret[s].err.subject = other.err.subject
              /\ ret[s].err.context = other.err.context
              /\ other.err.kind = "transport"
              /\ ret[s].err.kind = "unsuccessful"
                   <=> inv[s][Least(FailedAt(s))].st = "unsuccessful"
              /\ ret[s].err.kind = "transport"
                   <=> inv[s][Least(FailedAt(s))].st = "transport_error"
              /\ pc = "done"
              /\ result = ret[s]
              /\ \A t \in DOMAIN stages : t > s => ~SomeIssued(t) /\ inv[t] = << >>

\* C6 witness: the build of the second target of the first stage reported
\* success = false, the run ended with that error, and the next stage, which has
\* targets, had no call issued.
C6_Witness ==
  /\ Len(stages) = 2
  /\ stages[1].action = "build"
  /\ Len(inv[1]) = 2
  /\ inv[1][1].st = "success"
  /\ inv[1][2].st = "unsuccessful"
  /\ stages[2].targets # << >>
  /\ inv[2] = << >>
  /\ pc = "done"
  /\ IsErr(result)
  /\ result.err.kind = "unsuccessful"

\* C7: when every target name of a stage the runner has reached is in the applicable
\* index, the resolved identifiers are as many as the names and the i-th identifier is
\* the one the index maps the i-th name to, so input order and repetitions are kept; an
\* index built from the listing [(a,1),(b,2)] resolves [b,a] to [2,1].
C7_ResolveKeepsInputOrder ==
  \A s \in DOMAIN stages :
    (k >= s /\ MissingIn(s, OwnMap(s)) = {}) =>
      /\ Len(inv[s]) = Len(stages[s].targets)
      /\ \A i \in DOMAIN inv[s] : inv[s][i].id = OwnMap(s)[stages[s].targets[i]]
      /\ ( /\ stages[s].action = "build"
           /\ remote_builds = <<[name |-> "a", id |-> "1"], [name |-> "b", id |-> "2"]>>
           /\ stages[s].targets = <<"b", "a">> )
         => IdsOf(inv[s]) = <<"2", "1">>

\* C7 witness: the listing [(a,1),(b,2)] and the targets [b,a] of a build stage,
\* resolved.
C7_Witness ==
  /\ k = 1
  /\ stages[1].action = "build"
  /\ remote_builds = <<[name |-> "a", id |-> "1"], [name |-> "b", id |-> "2"]>>
  /\ stages[1].targets = <<"b", "a">>
  /\ Len(inv[1]) = 2

\* whether the run failed at stage s with the name-not-found error of name n
NotFoundAt(s, n) == k = s /\ pc = "done" /\ result = Err(NoIdFound(n))

\* C8: for a stage the runner has reached, a target name that is only in the index of
\* the other namespace fails the resolution (the first such name is reported when no
\* earlier name is absent), and when the stage resolves, a name that is in both indices
\* has the identifier of the stage's own namespace: the build index for Build, the
\* deployment index for every other action.
C8_NamespaceByAction ==
  \A s \in DOMAIN stages :
    k >= s =>
      LET own == IF stages[s].action = "build" THEN build_map ELSE deployment_map
          other == IF stages[s].action = "build" THEN deployment_map ELSE build_map
          onlyOther == MissingIn(s, own) \ MissingIn(s, other)
      IN /\ onlyOther # {} =>
              /\ \E i \in MissingIn(s, own) : NotFoundAt(s, stages[s].targets[i])
              /\ Least(onlyOther) = Least(MissingIn(s, own))
                   => NotFoundAt(s, stages[s].targets[Least(onlyOther)])
         /\ MissingIn(s, own) = {} =>
              \A i \in DOMAIN stages[s].targets :
                /\ i \in DOMAIN inv[s]
                /\ inv[s][i].id = own[stages[s].targets[i]]
                /\ stages[s].targets[i] \in DOMAIN other
                     => inv[s][i].id # other[stages[s].targets[i]]

\* C8 witness: a build stage failed on a name that only the deployment index has, while
\* another of its names is in the build index.
C8_Witness ==
  /\ k = 1
  /\ stages[1].action = "build"
  /\ Len(stages[1].targets) = 2
  /\ stages[1].targets[1] \in DOMAIN build_map
  /\ stages[1].targets[2] \in DOMAIN deployment_map \ DOMAIN build_map
  /\ NotFoundAt(1, stages[1].targets[2])

\* C9 as stated: every run of a run-book with zero stages that has ended has completed
\* successfully (with no remote call beyond the two listings).
C9_AsStated ==
  (stages = << >> /\ pc = "done") =>
    /\ IsOk(result)
    /\ list_calls = [builds |-> 1, deployments |-> 1]

\* C9 amended: a run of a run-book with zero stages completes successfully as soon as
\* both listings have succeeded, and fails only with the error of a listing call; it
\* issues at most one listing call of each kind and no other remote call.
C9_ZeroStagesCompleteAfterListing ==
  stages = << >> =>
    /\ k >= 1 => pc = "done" /\ IsOk(result)
    /\ IsErr(result) => pc = "done" /\ k = 0 /\ result.err.kind = "listing"
    /\ IsOk(result) => list_calls = [builds |-> 1, deployments |-> 1]
    /\ list_calls.builds <= 1 /\ list_calls.deployments <= 1
    /\ DOMAIN inv = {}

\* C9 witness: a run with zero stages has completed successfully after both listings.
C9_Witness ==
  /\ stages = << >>
  /\ pc = "done"
  /\ IsOk(result)
  /\ list_calls = [builds |-> 1, deployments |-> 1]

\* whether every target name of stage s resolves and every invocation dispatched for it
\* has reported success
AllResolveAndSucceed(s) ==
  /\ MissingIn(s, OwnMap(s)) = {}
  /\ \A i \in DOMAIN inv[s] : inv[s][i].st = "success"

\* C10 as stated: a run that has ended and in which, for every stage, every target name
\* resolves and every dispatched invocation reported success has not ended in failure.
C10_AsStated ==
  (pc = "done" /\ \A s \in DOMAIN stages : AllResolveAndSucceed(s)) => IsOk(result)

\* C10 amended: when the dispatch of a stage whose names all resolve has returned and
\* every invocation reported success, it returned Ok and the runner has moved on to the
\* next stage, completing the run if the stage was the last; and a run in which both
\* listings succeeded and this holds for every stage has not ended in failure.
C10_AllSucceedCompletes ==
  /\ \A s \in DOMAIN stages :
       (Returned(s) /\ AllResolveAndSucceed(s)) =>
         /\ IsOk(ret[s])
         /\ k > s
         /\ s = Len(stages) => pc = "done" /\ IsOk(result)
  /\ (pc = "done" /\ k >= 1 /\ \A s \in DOMAIN stages : AllResolveAndSucceed(s)) =>
       /\ IsOk(result)
       /\ k = Len(stages) + 1
       /\ \A s \in DOMAIN stages : IsOk(ret[s]) /\ Len(inv[s]) = Len(stages[s].targets)

\* C10 witness: a run of two stages, each with an invocation, has completed
\* successfully.
C10_Witness ==
  /\ Len(stages) = 2
  /\ inv[1] # << >>
  /\ inv[2] # << >>
  /\ pc = "done"
  /\ IsOk(result)

\* the number of calls of stages 1..n that were issued to the remote service
RECURSIVE IssuedUpTo(_)
IssuedUpTo(n) ==
  IF n = 0 THEN 0
  ELSE IssuedUpTo(n - 1) + Cardinality({ i \in DOMAIN inv[n] : inv[n][i].st # "created" })

\* the number of action calls issued in the run
ActionCalls == IssuedUpTo(Len(stages))

\* the number of targets of stages 1..n, each occurrence counted
RECURSIVE TargetsUpTo(_)
TargetsUpTo(n) == IF n = 0 THEN 0 ELSE TargetsUpTo(n - 1) + Len(stages[n].targets)

\* C11: a run that has completed successfully has issued one build-listing call and one
\* deployment-listing call, and for every stage one call of the stage's client method
\* per target occurrence, on the identifier of that target, so as many action calls as
\* the run-book has target occurrences; the run-book of two stages with two targets
\* each makes 4 action calls and 2 listing calls.
C11_CallsOfASuccessfulRun ==
  (pc = "done" /\ IsOk(result)) =>
    /\ list_calls = [builds |-> 1, deployments |-> 1]
    /\ \A s \in DOMAIN stages :
         /\ Len(inv[s]) = Len(stages[s].targets)
         /\ \A i \in DOMAIN inv[s] :
              /\ inv[s][i].st = "success"
              /\ inv[s][i].method = Method(stages[s].action)
              /\ inv[s][i].id = OwnMap(s)[stages[s].targets[i]]
    /\ ActionCalls = TargetsUpTo(Len(stages))
    /\ ( /\ Len(stages) = 2
         /\ Len(stages[1].targets) = 2
         /\ Len(stages[2].targets) = 2 )
       => ActionCalls = 4 /\ list_calls.builds + list_calls.deployments = 2

\* C11 witness: the end-to-end run-book (build a and b, then deploy a and b) has
\* completed successfully with 4 action calls and 2 listing calls.
C11_Witness ==
  /\ stages \in ScenarioBooks
  /\ pc = "done"
  /\ IsOk(result)
  /\ ActionCalls = 4
  /\ list_calls.builds + list_calls.deployments = 2

\* C12 as stated: when the run has failed at stage k, the error run_stages returned, and
\* the report main makes of it, name stage k (Stage.name).
C12_AsStated ==
  (pc = "done" /\ IsErr(result) /\ k >= 1) =>
    /\ stages[k].name \in ErrorNames(result.err)
    /\ stages[k].name \in main_report(result).names

\* C13: when the listing of the builds or of the deployments fails, the run ends with the
\* listing error and no action call of any stage is issued, whatever the stages are (also
\* when none of them is resolved in the map whose listing failed, and when there is no
\* stage); when the listing of the builds fails, list_deployments is not called.
C13_ListingFailureFailsRun ==
  /\ list_outcome.builds = "err" =>
       /\ pc = "done" /\ result = Err(ListingError("builds"))
       /\ list_calls = [builds |-> 1, deployments |-> 0]
       /\ list_outcome.deployments = "none"
       /\ k = 0 /\ ActionCalls = 0
       /\ \A s \in DOMAIN stages : inv[s] = << >> /\ ~Returned(s)
  /\ list_outcome.deployments = "err" =>
       /\ pc = "done" /\ result = Err(ListingError("deployments"))
       /\ list_calls = [builds |-> 1, deployments |-> 1]
       /\ k = 0 /\ ActionCalls = 0
       /\ \A s \in DOMAIN stages : inv[s] = << >> /\ ~Returned(s)

\* the listing of the deployments failed in a run-book of build stages only, whose targets
\* are all in the build map
C13_Witness ==
  /\ list_outcome = [builds |-> "ok", deployments |-> "err"]
  /\ stages # << >>
  /\ \A s \in DOMAIN stages :
       /\ stages[s].action = "build"
       /\ stages[s].targets # << >>
       /\ MissingIn(s, build_map) = {}
  /\ pc = "done" /\ IsErr(result)

\* C14: a stage without targets is a no-op whatever its action is: its names resolve to
\* the empty list of identifiers, it has no invocation, its dispatcher returns Ok(()), and
\* the loop goes on to the next stage, or returns Ok(()) when the stage is the last.
C14_EmptyStageIsNoOp ==
  \A s \in DOMAIN stages :
    stages[s].targets = << >> =>
      /\ ResolveTargets(stages[s].action, stages[s].targets, build_map, deployment_map)
           = Ok(<< >>)
      /\ Dispatch(stages[s].action, << >>, << >>) = Ok(Unit)
      /\ inv[s] = << >>
      /\ k = s => /\ pc = "join" /\ result = Pending /\ ~Returned(s)
                  /\ ENABLED Join
      /\ k > s => ret[s] = Ok(Unit)
      /\ (k > s /\ s = Len(stages)) => (pc = "done" /\ result = Ok(Unit))
      /\ (k = s + 1 /\ s < Len(stages) /\ pc = "done") => StageFailed(s + 1)

\* the first stage has no targets, it has returned, and a call of the second stage is in
\* flight
C14_Witness ==
  /\ Len(stages) = 2
  /\ stages[1].targets = << >>
  /\ ret[1] = Ok(Unit)
  /\ k = 2 /\ pc = "join"
  /\ \E i \in DOMAIN inv[2] : inv[2][i].st = "in_flight"

\* the positions of stage s whose call is issued and has not come back
InFlight(s) == { i \in DOMAIN inv[s] : inv[s][i].st = "in_flight" }

\* C15: there is no timeout: as long as a call of a stage is in flight, the dispatcher of
\* the stage cannot return, the run has no result, and no later stage has begun; this is
\* so whatever the other calls of the stage did, also when one of them has failed.
C15_NoTimeout ==
  \A s \in DOMAIN stages :
    InFlight(s) # {} =>
      /\ k = s /\ pc = "join"
      /\ ~ENABLED Join
      /\ ~Returned(s) /\ result = Pending
      /\ \A t \in DOMAIN stages : t > s => (inv[t] = << >> /\ ~Returned(t))

\* one call of the first stage is in flight, every other call of the stage has come back
\* and one of them has failed; a second stage with targets waits
C15_Witness ==
  /\ Len(stages) = 2 /\ stages[2].targets # << >>
  /\ k = 1
  /\ Cardinality(InFlight(1)) = 1
  /\ Len(inv[1]) >= 2
  /\ \A i \in DOMAIN inv[1] \ InFlight(1) : inv[1][i].st \in Responses
  /\ FailedAt(1) # {}

\* the position of the current stage that join_all polls for the first time next, 0 when
\* every call is issued
NextToIssue ==
  IF \E i \in DOMAIN inv[k] : inv[k][i].st = "created"
    THEN Least({ i \in DOMAIN inv[k] : inv[k][i].st = "created" })
    ELSE 0

\* C16: the calls of a stage are issued without waiting for one another: while the
\* dispatcher of a stage runs, the next call not yet issued can be issued whether the calls
\* issued before it have come back or not, and every call in flight can come back with any
\* response whatever the other calls do; so a call that never comes back keeps no other
\* call from being issued and from coming back.
C16_IssuedWithoutWaiting ==
  (pc = "join" /\ k \in DOMAIN stages) =>
    /\ NextToIssue # 0 => ENABLED Issue(NextToIssue)
    /\ \A i \in InFlight(k) : \A resp \in Responses : ENABLED Complete(i, resp)
    /\ \A i \in DOMAIN inv[k] :
         inv[k][i].st \in Responses => \A j \in 1..(i - 1) : inv[k][j].st # "created"

\* every call of a stage with two or more identifiers is in flight at once
C16_Witness ==
  /\ pc = "join" /\ k \in DOMAIN stages
  /\ Len(inv[k]) >= 2
  /\ InFlight(k) = DOMAIN inv[k]

\* the positions of names whose name is not a key of m
Absent(names, m) == { i \in DOMAIN names : names[i] \notin DOMAIN m }

\* C17: names_to_ids returns all identifiers or none: for every sequence of names and each
\* of the two maps a run has ended with, when a name is not in the map the result is an Err without
\* any identifier, also when names before the absent one are in the map, and the error is
\* "no id found" for the absent name of the smallest position; the stage that fails so has
\* no invocation.
C17_ResolveAllOrNothing ==
  /\ (k >= 1 /\ pc = "done") =>
       \A m \in {build_map, deployment_map} :
         \A names \in TargetLists(Names, MaxTargets) :
           LET r == names_to_ids(names, m)
           IN IF Absent(names, m) = {}
                THEN r = Ok([i \in DOMAIN names |-> m[names[i]]])
                ELSE /\ DOMAIN r = {"tag", "err"}
                     /\ r = Err(NoIdFound(names[Least(Absent(names, m))]))
  /\ \A s \in DOMAIN stages :
       (k = s /\ Absent(stages[s].targets, OwnMap(s)) # {}) =>
         /\ result = names_to_ids(stages[s].targets, OwnMap(s))
         /\ inv[s] = << >>

\* two different names of a stage are both absent from the map of the stage, and the run
\* has failed with the error of the first
C17_Witness ==
  /\ k \in DOMAIN stages
  /\ Len(stages[k].targets) = 2
  /\ stages[k].targets[1] # stages[k].targets[2]
  /\ Absent(stages[k].targets, OwnMap(k)) = {1, 2}
  /\ pc = "done"
  /\ result = Err(NoIdFound(stages[k].targets[1]))

\* C18: names are resolved stage by stage: when the run has failed at stage k, by a name
\* stage k does not resolve or by a call of stage k, every stage before k has one call for
\* each of its targets, by the method of its own action, and each of these calls has come
\* back with success; a "no id found" error is about a target of stage k itself; and after
\* the failure no call is issued, so nothing undoes the calls of the stages before.
C18_ValidatedStageByStage ==
  (pc = "done" /\ IsErr(result) /\ k >= 1) =>
    /\ StageFailed(k)
    /\ result.err.kind = "no_id_found" =>
         /\ Absent(stages[k].targets, OwnMap(k)) # {}
         /\ result.err.subject = stages[k].targets[Least(Absent(stages[k].targets, OwnMap(k)))]
    /\ \A t \in 1..(k - 1) :
         /\ ret[t] = Ok(Unit)
         /\ Len(inv[t]) = Len(stages[t].targets)
         /\ \A i \in DOMAIN inv[t] :
              /\ inv[t][i].st = "success"
              /\ inv[t][i].method = Method(stages[t].action)
    /\ \A t \in DOMAIN stages : t > k => inv[t] = << >>
    /\ ~ENABLED (\E i \in 1..(MaxTargets + MaxCalls) : Issue(i))
    /\ ActionCalls = IssuedUpTo(k)

\* the second stage has a name that does not resolve; the run has failed there after the
\* calls of the first stage came back with success
C18_Witness ==
  /\ Len(stages) = 2
  /\ k = 2 /\ pc = "done"
  /\ IsErr(result) /\ result.err.kind = "no_id_found"
  /\ inv[1] # << >>
  /\ \A i \in DOMAIN inv[1] : inv[1][i].st = "success"

\* what a stage resolves to in the maps the run holds
SnapshotOk(s) ==
  /\ (k >= s /\ Absent(stages[s].targets, OwnMap(s)) # {}) =>
       /\ k = s /\ pc = "done"
       /\ result = Err(NoIdFound(stages[s].targets[Least(Absent(stages[s].targets, OwnMap(s)))]))
  /\ (k = s /\ pc = "done" /\ IsErr(result) /\ result.err.kind = "no_id_found") =>
       Absent(stages[s].targets, OwnMap(s)) # {}
  /\ (k >= s /\ Absent(stages[s].targets, OwnMap(s)) = {}) =>
       IdsOf(inv[s]) = [i \in DOMAIN stages[s].targets |-> OwnMap(s)[stages[s].targets[i]]]

\* a step of the run keeps the maps once they are made, makes each from what the remote
\* service holds when its listing returns, and lists nothing again
SnapshotKept ==
  /\ (list_outcome.builds = "none" /\ list_outcome'.builds = "ok") =>
       build_map' = build_name_to_id_map(Ok(remote_builds)).val
  /\ (list_outcome.deployments = "none" /\ list_outcome'.deployments = "ok") =>
       deployment_map' = deployment_name_to_id_map(Ok(remote_deployments)).val
  /\ list_outcome.builds = "ok" => build_map' = build_map
  /\ list_outcome.builds # "none" => list_calls' = list_calls
  /\ list_outcome.deployments = "ok" => deployment_map' = deployment_map
  /\ k >= 1 => UNCHANGED <<build_map, deployment_map, list_calls, list_outcome>>

\* C19: each map is a snapshot no step of the run changes: the two listings are made once,
\* before the first stage, and every stage resolves its names in the maps made then,
\* whatever the remote service holds when the stage is reached; a name created at the
\* remote service after the listing is not found, and a name removed after the listing
\* resolves to the identifier it had.
C19_SnapshotNeverRefreshed ==
  /\ [](\A s \in DOMAIN stages : SnapshotOk(s))
  /\ [](list_calls.builds <= 1 /\ list_calls.deployments <= 1
        /\ (k >= 1 => list_calls = [builds |-> 1, deployments |-> 1]))
  /\ [][SnapshotKept]_vars

\* the build "a" was removed after the listing and the first stage has built it by its old
\* identifier; the deployment "a" was created after the listing and the second stage has
\* failed to find it
C19_Witness ==
  /\ Len(stages) = 2 /\ k = 2 /\ pc = "done"
  /\ stages[1].action = "build" /\ stages[1].targets # << >>
  /\ remote_builds = << >>
  /\ \A i \in DOMAIN inv[1] : inv[1][i].id = BuildIdOf["a"] /\ inv[1][i].st = "success"
  /\ stages[2].action = "deploy"
  /\ remote_deployments = <<[deployment |-> [name |-> "a", id |-> DeploymentIdOf["a"]]]>>
  /\ "a" \notin DOMAIN deployment_map
  /\ result = Err(NoIdFound("a"))

\* C20: when every call issued to the remote service returns, the run ends: run_stages
\* returns, with Ok(()) or with an Err and not both; it has no result before it ends, and
\* once it has returned nothing more happens: no listing and no action call is issued.
C20_RunTerminates ==
  /\ <>(pc = "done")
  /\ [](pc = "done" <=> result # Pending)
  /\ [](pc = "done" => (IsOk(result) /\ result = Ok(Unit)) \/ (IsErr(result) /\ ~IsOk(result)))
  /\ [](pc = "done" => ~ENABLED Next)
  /\ [][pc = "done" => UNCHANGED <<inv, list_calls, result, pc>>]_vars

\* the run has ended with the error of a call of its second stage, after the calls of the
\* first stage, and no step is left
C20_Witness ==
  /\ pc = "done" /\ k = 2
  /\ IsErr(result) /\ result.err.kind \in {"transport", "unsuccessful"}
  /\ inv[1] # << >>
  /\ ~ENABLED Next

====
